---- MODULE Spec2Model ----
(***************************************************************************)
(* Student and Course Management System (src/main.py).                     *)
(*                                                                         *)
(* The program keeps two CSV files.  Every button handler of main() works  *)
(* on exactly one of them, named by its file_name argument, and no handler *)
(* reads or writes the other one, so the model follows the operations of   *)
(* one collection: `kind` says which (chosen in Init), `file` is the       *)
(* content of its CSV file as the grid of cells that csv.writer produces.  *)
(*                                                                         *)
(* Texts are sequences of one-character strings, so that str.lower() and   *)
(* the substring test of the search handlers are computed, not assumed.    *)
(* A Python value is [ty, text]: an int is told from the str that spells   *)
(* it, which is what csv.DictWriter / csv.DictReader do not preserve.      *)
(* A Python dict is the sequence of its items [k, v] in insertion order.   *)
(***************************************************************************)
EXTENDS Integers, Sequences, FiniteSets, TLC

VARIABLES
    kind,       \* "student" or "course": the collection the run operates on
    file,       \* [header, rows]: the cells of the collection's CSV file
    windows,    \* the open "Edit ... Entry" windows, each with its closure
    last,       \* the last handler that ran, its inputs and what it showed
    deleted,    \* history: some delete_entry has popped a record
    ops         \* history: how many handlers have written the file or opened a window

vars == <<kind, file, windows, last, deleted, ops>>

\* ------------------------------------------------------------------ bounds

\* the handlers that write the file or open a window run at most this often
MaxOps == 5
\* add is offered only while the file holds fewer records than this
MaxRecords == 2
\* edit windows that may be open at the same time
MaxEditWindows == 1

\* ------------------------------------------------------------------- texts

EmptyText == <<>>

\* str.lower() on the alphabet the inputs are written in
LowerChar(c) ==
    CASE c = "A" -> "a"
      [] c = "B" -> "b"
      [] OTHER -> c

Lower(t) == [i \in 1..Len(t) |-> LowerChar(t[i])]

\* Python's `sub in text` on str
Contains(text, sub) ==
    \E off \in 0..Len(text) :
        /\ off + Len(sub) <= Len(text)
        /\ \A j \in 1..Len(sub) : text[off + j] = sub[j]

DigitChar(d) ==
    CASE d = 0 -> "0" [] d = 1 -> "1" [] d = 2 -> "2" [] d = 3 -> "3"
      [] d = 4 -> "4" [] d = 5 -> "5" [] d = 6 -> "6" [] d = 7 -> "7"
      [] d = 8 -> "8" [] OTHER -> "9"

\* str(n) for an int n >= 0
RECURSIVE Digits(_)
Digits(n) ==
    IF n < 10 THEN <<DigitChar(n)>>
    ELSE Digits(n \div 10) \o <<DigitChar(n % 10)>>

\* str.capitalize() on the field names of the two record types
Capitalize(key) ==
    CASE key = "id" -> "Id"
      [] key = "name" -> "Name"
      [] key = "sex" -> "Sex"
      [] key = "age" -> "Age"
      [] key = "institution" -> "Institution"
      [] key = "major" -> "Major"
      [] key = "credit" -> "Credit"
      [] key = "property" -> "Property"
      [] OTHER -> key

\* ----------------------------------------------------------- Python values

PyStr(t) == [ty |-> "str", text |-> t]
PyInt(n) == [ty |-> "int", text |-> Digits(n)]
PyNone == [ty |-> "None", text |-> EmptyText]

\* what csv.writer puts in a cell: str(value), and "" for None
CellOf(v) == IF v.ty = "None" THEN EmptyText ELSE v.text

\* truth value of a str, as in all(info.values()) and `if widget.get()`
Truthy(t) == t # EmptyText

\* ------------------------------------------------------------ Python dicts

Keys(d) == [i \in 1..Len(d) |-> d[i].k]
Has(d, key) == \E i \in 1..Len(d) : d[i].k = key
Get(d, key) == d[CHOOSE i \in 1..Len(d) : d[i].k = key].v
\* d[key] = v: an existing key keeps its place, a new one goes to the end
Set(d, key, v) ==
    IF Has(d, key)
    THEN [i \in 1..Len(d) |-> IF d[i].k = key THEN [k |-> key, v |-> v] ELSE d[i]]
    ELSE Append(d, [k |-> key, v |-> v])

\* ------------------------------------------------------------- record types

\* the record_type of the two files, STUDENT_FILE and COURSE_FILE
Kinds == {"student", "course"}

\* the header initialize_files() writes for each file
Header(kd) ==
    IF kd = "student"
    THEN <<"id", "name", "sex", "age", "institution", "major">>
    ELSE <<"id", "name", "credit", "property">>

\* the keys of `info` in save_student / save_course, in their order
InfoKeys(kd) ==
    IF kd = "student"
    THEN <<"name", "sex", "age", "institution", "major">>
    ELSE <<"name", "credit", "property">>

\* ------------------------------------------------------------- record store

initialize_files(kd) == [header |-> Header(kd), rows |-> <<>>]

\* csv.DictReader: one dict per non-blank row, keyed by the header row; every
\* value is a str; a row shorter than the header gets None for the rest
read_csv(f) ==
    LET body == SelectSeq(f.rows, LAMBDA r : r # <<>>)
    IN  [i \in 1..Len(body) |->
            [j \in 1..Len(f.header) |->
                [k |-> f.header[j],
                 v |-> IF j <= Len(body[i]) THEN PyStr(body[i][j]) ELSE PyNone]]]

\* RowOf without restval: a key the dict lacks gets no cell at all
RowOfNoRestval(header, d) ==
    LET present == SelectSeq(header, LAMBDA key : Has(d, key))
    IN  [j \in 1..Len(present) |-> CellOf(Get(d, present[j]))]

\* DictWriter._dict_to_list: the cells of one dict under the header; a key the
\* dict lacks is written as restval ''
RowOf(header, d) ==
    [j \in 1..Len(header) |->
        IF Has(d, header[j]) THEN CellOf(Get(d, header[j])) ELSE EmptyText]

\* DictWriter raises ValueError for a dict with a key outside fieldnames
ExtraKeys(header, d) ==
    \E i \in 1..Len(d) : \A j \in 1..Len(header) : header[j] # d[i].k

\* the number of dicts writerows() writes before it raises (all, if it does not)
Written(header, data) ==
    LET bad == {i \in 1..Len(data) : ExtraKeys(header, data[i])}
    IN  IF bad = {} THEN Len(data)
        ELSE (CHOOSE i \in bad : \A j \in bad : i <= j) - 1

\* write_csv: nothing at all for an empty list; otherwise the file is rewritten
\* with the keys of the first dict as its header
write_csv(f, data) ==
    IF data = <<>> THEN f
    ELSE LET header == Keys(data[1])
         IN  [header |-> header,
              rows |-> [i \in 1..Written(header, data) |-> RowOf(header, data[i])]]

Raises(data) == data # <<>> /\ Written(Keys(data[1]), data) < Len(data)

\* calculate_rrn: row['RRN'] = i, as an int, for i = 1, 2, ...
calculate_rrn(data) ==
    [i \in 1..Len(data) |-> Set(data[i], "RRN", PyInt(i))]


\* str(value) inside an f-string
FmtOf(v) == IF v.ty = "None" THEN <<"N", "o", "n", "e">> ELSE v.text

\* display_data: the text of the message box, kept as its parts: per record the
\* "RRN: i" line and one "Key: value" line per item other than RRN
display_data(data) ==
    LET data_with_rrn == calculate_rrn(data)
        lines(e) ==
            LET shown == SelectSeq(e, LAMBDA it : it.k # "RRN")
            IN  [i \in 1..Len(shown) |->
                    [label |-> Capitalize(shown[i].k), text |-> FmtOf(shown[i].v)]]
    IN  IF data_with_rrn # <<>>
        THEN [body |-> "records",
              entries |-> [i \in 1..Len(data_with_rrn) |->
                  [rrn |-> FmtOf(Get(data_with_rrn[i], "RRN")),
                   lines |-> lines(data_with_rrn[i])]]]
        ELSE [body |-> "No data available.", entries |-> <<>>]

\* ------------------------------------------------------------------ inputs

NameA == <<"A", "b">>
NameB == <<"b">>
FieldText == <<"v">>
IdText == <<"9">>

\* what simpledialog.askinteger returns: None (cancelled) or an int
NoAnswer == [given |-> FALSE, n |-> 0]
Answers ==
    {NoAnswer} \cup {[given |-> TRUE, n |-> i] : i \in (0 - 1)..(MaxRecords + 1)}

\* what simpledialog.askstring returns: None (cancelled) or a str
NoQuery == [given |-> FALSE, text |-> EmptyText]
Queries ==
    {NoQuery} \cup {[given |-> TRUE, text |-> t] : t \in {EmptyText, <<"B">>, <<"a">>}}

\* the contents of the Entry widgets of an "Add ..." window when Save is clicked
AddInputs(kd) ==
    LET keys == InfoKeys(kd)
    IN  {[j \in 1..Len(keys) |->
            [k |-> keys[j],
             v |-> PyStr(IF j = 1 THEN name
                         ELSE IF j = Len(keys) THEN tail ELSE FieldText)]] :
         name \in {EmptyText, NameA}, tail \in {EmptyText, FieldText}}

\* what the user types over the pre-filled Entry widgets of an edit window
\* (a key that is absent is left as pre-filled)
UserEdits(kd) ==
    {<<>>,
     <<[k |-> "id", v |-> IdText], [k |-> "name", v |-> NameB],
       [k |-> InfoKeys(kd)[2], v |-> EmptyText]>>,
     <<[k |-> "name", v |-> EmptyText]>>}

\* --------------------------------------------------------------- the state

NoMsg == ""

NoOp ==
    [op |-> "none", rrn |-> NoAnswer, info |-> <<>>, query |-> NoQuery,
     win |-> 0, typed |-> <<>>, msg |-> NoMsg, out |-> <<>>, saved |-> <<>>]

\* the message box after write_csv, unless write_csv raised
Shown(data, text) == IF Raises(data) THEN NoMsg ELSE text

Init ==
    /\ kind \in Kinds
    /\ file = initialize_files(kind)
    /\ windows = <<>>
    /\ last = NoOp
    /\ deleted = FALSE
    /\ ops = 0

\* ----------------------------------------------------------------- handlers

\* show_students / show_courses
show_records ==
    LET shown == display_data(read_csv(file))
    IN  /\ last' = [NoOp EXCEPT !.op = "show", !.msg = shown.body,
                                !.out = shown.entries]
        /\ UNCHANGED <<kind, file, windows, deleted, ops>>

\* NextId counting from zero
NextIdFromSize(data) == Len(data)

\* student_id = len(students) + 1
NextId(data) == Len(data) + 1

\* AppendRecord putting the new record first
AppendRecordFront(data, record) == <<record>> \o data

\* students.append(student)
AppendRecord(data, record) == Append(data, record)

\* add_student.save_student / add_course.save_course
save_record(info) ==
    IF \A i \in 1..Len(info) : Truthy(info[i].v.text)
    THEN LET data == read_csv(file)
             record == <<[k |-> "id", v |-> PyInt(NextId(data))]>> \o info
             newdata == AppendRecord(data, record)
         IN  /\ ops < MaxOps
             /\ Len(file.rows) < MaxRecords
             /\ ops' = ops + 1
             /\ file' = write_csv(file, newdata)
             /\ last' = [NoOp EXCEPT !.op = "add", !.info = info,
                            !.saved = newdata,
                            !.msg = Shown(newdata,
                                IF kind = "student"
                                THEN "New student added successfully!"
                                ELSE "New course added successfully!")]
             /\ UNCHANGED <<kind, windows, deleted>>
    ELSE /\ last' = [NoOp EXCEPT !.op = "add", !.info = info,
                                 !.msg = "All fields are required!"]
         /\ UNCHANGED <<kind, file, windows, deleted, ops>>

\* Matches without lower()
MatchesCaseSensitive(query, name) == Contains(name, query)

\* name.lower() in entry["name"].lower()
Matches(query, name) == Contains(Lower(name), Lower(query))

\* search_student / search_course
search_record(q) ==
    IF q.given /\ Truthy(q.text)
    THEN LET data == read_csv(file)
             results == SelectSeq(data,
                            LAMBDA e : Matches(q.text, Get(e, "name").text))
             shown == display_data(results)
         IN  /\ last' = [NoOp EXCEPT !.op = "search", !.query = q,
                            !.msg = IF results # <<>> THEN shown.body
                                    ELSE "No match found for '{name}'.",
                            !.out = IF results # <<>> THEN shown.entries ELSE <<>>]
             /\ UNCHANGED <<kind, file, windows, deleted, ops>>
    ELSE /\ last' = [NoOp EXCEPT !.op = "search", !.query = q]
         /\ UNCHANGED <<kind, file, windows, deleted, ops>>

\* ValidRRN without the upper bound
ValidRRNNoUpperBound(ans, size) ==
    /\ ans.given
    /\ ans.n # 0
    /\ ans.n >= 1

\* not (not entry_rrn or entry_rrn < 1 or entry_rrn > len(data_with_rrn))
ValidRRN(ans, size) ==
    /\ ans.given
    /\ ans.n # 0
    /\ ans.n >= 1
    /\ ans.n <= size

\* edit_entry up to the creation of the edit window, which stays open (it is a
\* plain Toplevel: the main window keeps accepting clicks) with `data` and
\* `entry` in the closure of its Save button
edit_entry(ans) ==
    LET data == read_csv(file)
        data_with_rrn == calculate_rrn(data)
    IN  IF data = <<>>
        THEN /\ last' = [NoOp EXCEPT !.op = "edit", !.rrn = ans,
                            !.msg = IF kind = "student" THEN "No students to edit!"
                                    ELSE "No courses to edit!"]
             /\ UNCHANGED <<kind, file, windows, deleted, ops>>
        ELSE IF ~ValidRRN(ans, Len(data_with_rrn))
        THEN /\ last' = [NoOp EXCEPT !.op = "edit", !.rrn = ans,
                                     !.msg = "Invalid RRN!"]
             /\ UNCHANGED <<kind, file, windows, deleted, ops>>
        ELSE /\ ops < MaxOps
             /\ Len(windows) < MaxEditWindows
             /\ ops' = ops + 1
             /\ windows' = Append(windows, [data |-> data_with_rrn, rrn |-> ans.n])
             /\ last' = [NoOp EXCEPT !.op = "edit", !.rrn = ans]
             /\ UNCHANGED <<kind, file, deleted>>

\* the Entry widgets of the edit window: one per item of entry other than RRN,
\* pre-filled with its value, then typed over by the user
Widgets(entry, typed) ==
    LET shown == SelectSeq(entry, LAMBDA it : it.k # "RRN")
    IN  [i \in 1..Len(shown) |->
            [k |-> shown[i].k,
             v |-> IF Has(typed, shown[i].k) THEN Get(typed, shown[i].k)
                   ELSE FmtOf(shown[i].v)]]

\* if key != "id" and widget.get()
Editable(key, text) == key # "id" /\ Truthy(text)

\* for key, widget in entries.items(): ... entry[key] = widget.get()
RECURSIVE Update(_, _, _)
Update(entry, entries, i) ==
    IF i > Len(entries) THEN entry
    ELSE Update(IF Editable(entries[i].k, entries[i].v)
                THEN Set(entry, entries[i].k, PyStr(entries[i].v))
                ELSE entry,
                entries, i + 1)

\* edit_entry.save_changes, the Save button of the open edit window w
save_changes(w, typed) ==
    LET win == windows[w]
        entry == win.data[win.rrn]
        entries == Widgets(entry, typed)
        data == [win.data EXCEPT ![win.rrn] = Update(entry, entries, 1)]
    IN  /\ ops < MaxOps
        /\ ops' = ops + 1
        /\ file' = write_csv(file, data)
        /\ windows' = IF Raises(data) THEN windows
                      ELSE [j \in 1..(Len(windows) - 1) |->
                               IF j < w THEN windows[j] ELSE windows[j + 1]]
        /\ last' = [NoOp EXCEPT !.op = "save_changes", !.win = w,
                       !.rrn = [given |-> TRUE, n |-> win.rrn],
                       !.typed = typed, !.saved = data,
                       !.msg = Shown(data,
                           IF kind = "student" THEN "Student updated successfully!"
                           ELSE "Course updated successfully!")]
        /\ UNCHANGED <<kind, deleted>>

\* data.pop(i - 1)
Pop(data, i) ==
    [j \in 1..(Len(data) - 1) |-> IF j < i THEN data[j] ELSE data[j + 1]]

\* delete_entry
delete_entry(ans) ==
    LET data == read_csv(file)
        data_with_rrn == calculate_rrn(data)
    IN  IF data = <<>>
        THEN /\ last' = [NoOp EXCEPT !.op = "delete", !.rrn = ans,
                                     !.msg = "No entries to delete!"]
             /\ UNCHANGED <<kind, file, windows, deleted, ops>>
        ELSE IF ~ValidRRN(ans, Len(data_with_rrn))
        THEN /\ last' = [NoOp EXCEPT !.op = "delete", !.rrn = ans,
                                     !.msg = "Invalid RRN!"]
             /\ UNCHANGED <<kind, file, windows, deleted, ops>>
        ELSE LET rest == Pop(data_with_rrn, ans.n)
             IN  /\ ops < MaxOps
                 /\ ops' = ops + 1
                 /\ file' = write_csv(file, rest)
                 /\ deleted' = TRUE
                 /\ last' = [NoOp EXCEPT !.op = "delete", !.rrn = ans,
                                !.saved = rest,
                                !.msg = Shown(rest, "Entry deleted successfully!")]
                 /\ UNCHANGED <<kind, windows>>

\* compact_file renumbering the identifiers 1, 2, ... before it saves
compact_file_renumbering ==
    LET data == read_csv(file)
        renumbered == [i \in 1..Len(data) |-> Set(data[i], "id", PyInt(i))]
    IN  /\ file' = write_csv(file, renumbered)
        /\ last' = [NoOp EXCEPT !.op = "compact", !.saved = renumbered,
                       !.msg = Shown(renumbered, "File compacted and gaps removed!")]
        /\ UNCHANGED <<kind, windows, deleted, ops>>

\* compact_file
compact_file ==
    LET data == read_csv(file)
    IN  /\ file' = write_csv(file, data)
        /\ last' = [NoOp EXCEPT !.op = "compact", !.saved = data,
                       !.msg = Shown(data, "File compacted and gaps removed!")]
        /\ UNCHANGED <<kind, windows, deleted, ops>>

\* the buttons of main() and the Save buttons of the windows they open
Next ==
    \/ show_records
    \/ \E info \in AddInputs(kind) : save_record(info)
    \/ \E q \in Queries : search_record(q)
    \/ \E ans \in Answers : edit_entry(ans)
    \/ \E w \in 1..Len(windows) : \E typed \in UserEdits(kind) : save_changes(w, typed)
    \/ \E ans \in Answers : delete_entry(ans)
    \/ compact_file

Spec == Init /\ [][Next]_vars

\* ------------------------------------------------------------------ claims

\* a record without its RRN item
Base(d) == SelectSeq(d, LAMBDA it : it.k # "RRN")

\* the identifiers of the stored records, as the texts in the file
StoredIds(f) == [i \in 1..Len(read_csv(f)) |-> Get(read_csv(f)[i], "id").text]

\* a position the user gave that lies in [1, size]
InRange(ans, size) == ans.given /\ 1 <= ans.n /\ ans.n <= size

\* C1: delete at a valid position p of a collection of any size >= 1 leaves the
\* stored collection equal to the previous one with exactly the p-th record
\* removed: one record fewer, the others in their order with their fields.
DeleteRemovesRecord ==
    [][(last'.op = "delete" /\ InRange(last'.rrn, Len(read_csv(file)))) =>
        LET before == read_csv(file)
            after == read_csv(file')
            p == last'.rrn.n
        IN  /\ Len(after) = Len(before) - 1
            /\ \A j \in 1..Len(after) :
                   Base(after[j]) = Base(before[IF j < p THEN j ELSE j + 1])]_vars

\* C2: no operation writes the file between the load an edit performs and the
\* save of that edit: when Save is clicked, the snapshot the edit window holds
\* is still the stored collection, so the save undoes no completed add or delete.
EditSavesCurrentSnapshot ==
    [][last'.op = "save_changes" =>
        windows[last'.win].data = calculate_rrn(read_csv(file))]_vars

\* C3: the display position is never stored: the file's field set stays the
\* fixed field set of its collection kind, with no RRN field.
RRNNeverStored ==
    /\ file.header = Header(kind)
    /\ \A i \in 1..Len(read_csv(file)) : ~Has(read_csv(file)[i], "RRN")

\* C4: add with all required fields non-empty on a collection of size n leaves
\* the stored collection equal to the previous one with one record appended,
\* whose identifier is n + 1 and whose fields are the ones entered.
AddAppendsRecord ==
    [][(last'.op = "add" /\ \A i \in 1..Len(last'.info) : last'.info[i].v.text # <<>>) =>
        LET before == read_csv(file)
            after == read_csv(file')
            n == Len(before)
        IN  /\ Len(after) = n + 1
            /\ \A j \in 1..n : after[j] = before[j]
            /\ Get(after[n + 1], "id").text = Digits(n + 1)
            /\ \A i \in 1..Len(last'.info) :
                   Get(after[n + 1], last'.info[i].k) = last'.info[i].v
            /\ file'.header = file.header]_vars

AddAppendsRecordWitness ==
    /\ last.op = "add"
    /\ last.saved # <<>>
    /\ Len(file.rows) = 2
    /\ deleted

\* C5: delete or edit with a position outside [1, size] is rejected with an
\* error; the file is left as it was and no edit window is opened.
InvalidPositionRejected ==
    [][(/\ last'.op \in {"edit", "delete"}
        /\ last'.rrn.given
        /\ ~InRange(last'.rrn, Len(read_csv(file)))) =>
        /\ last'.msg \in {"Invalid RRN!", "No entries to delete!",
                          "No students to edit!", "No courses to edit!"}
        /\ file' = file
        /\ windows' = windows]_vars

InvalidPositionRejectedWitness ==
    /\ last.op = "delete"
    /\ last.rrn.given
    /\ Len(file.rows) >= 1
    /\ last.rrn.n > Len(file.rows)
    /\ last.msg = "Invalid RRN!"

\* the value the edit window supplies for a field: what the user typed, or the
\* stored value the Entry widget was pre-filled with
Supplied(typed, record, key) ==
    IF Has(typed, key) THEN Get(typed, key) ELSE Get(record, key).text

\* C6: edit at a valid position p changes only record p of the stored
\* collection: a non-identifier field takes the supplied value if that is
\* non-empty and keeps its value otherwise, the identifier is unchanged, and
\* all other records and the record order are unchanged.
EditChangesOnlyRecord ==
    [][last'.op = "save_changes" =>
        LET before == read_csv(file)
            after == read_csv(file')
            p == last'.rrn.n
        IN  /\ Len(after) = Len(before)
            /\ \A j \in 1..Len(after) : j # p => after[j] = before[j]
            /\ Get(after[p], "id") = Get(before[p], "id")
            /\ \A i \in 1..Len(InfoKeys(kind)) :
                   LET key == InfoKeys(kind)[i]
                       new == Supplied(last'.typed, before[p], key)
                   IN  Get(after[p], key).text =
                           IF new # <<>> THEN new ELSE Get(before[p], key).text]_vars

\* query is a substring of name when letter case is ignored
SameLetter(a, b) == LowerChar(a) = LowerChar(b)
FoundIn(name, query) ==
    \E off \in 0..(Len(name) - Len(query)) :
        \A j \in 1..Len(query) : SameLetter(name[off + j], query[j])

\* the field texts of the records a search for query is to show, in load order
Expected(f, query) ==
    LET hits == SelectSeq(read_csv(f),
                          LAMBDA e : FoundIn(Get(e, "name").text, query))
    IN  [i \in 1..Len(hits) |->
            [j \in 1..Len(Base(hits[i])) |-> Base(hits[i])[j].v.text]]

\* the field texts of the records the last message box showed
Displayed == [i \in 1..Len(last.out) |->
                 [j \in 1..Len(last.out[i].lines) |-> last.out[i].lines[j].text]]

\* C7 as stated: search shows exactly the records whose name contains the query
\* as a case-insensitive substring, every record for the empty query.
SearchReturnsMatches ==
    (last.op = "search" /\ last.query.given) =>
        Displayed = Expected(file, last.query.text)

\* C7 as amended: that holds for a non-empty query; for the empty query (or a
\* cancelled prompt) nothing is searched and nothing is shown; search never
\* changes the file.
SearchReturnsMatchesNonEmpty ==
    [][last'.op = "search" =>
        /\ file' = file
        /\ IF last'.query.given /\ last'.query.text # <<>>
           THEN /\ [i \in 1..Len(last'.out) |->
                       [j \in 1..Len(last'.out[i].lines) |->
                           last'.out[i].lines[j].text]]
                     = Expected(file, last'.query.text)
                /\ \A i \in 1..Len(last'.out) : last'.out[i].rrn = Digits(i)
           ELSE last'.out = <<>> /\ last'.msg = NoMsg]_vars

SearchReturnsMatchesWitness ==
    /\ last.op = "search"
    /\ last.query.text = <<"a">>
    /\ Len(last.out) = 1
    /\ Len(file.rows) = 2

RoundTrip ==
    last.saved # <<>> => read_csv(file) = last.saved

\* C9 as amended: load after save returns as many records in the same order,
\* each with the fields of the first saved record; a field's value is the text
\* of the saved value, as a str, and the empty str where the saved record had
\* no such field.
RoundTripAsText ==
    last.saved # <<>> =>
        LET loaded == read_csv(file)
            fields == Keys(last.saved[1])
        IN  /\ Len(loaded) = Len(last.saved)
            /\ \A i \in 1..Len(loaded) :
                   /\ Keys(loaded[i]) = fields
                   /\ \A j \in 1..Len(fields) :
                          loaded[i][j].v =
                              IF Has(last.saved[i], fields[j])
                              THEN [ty |-> "str",
                                    text |-> Get(last.saved[i], fields[j]).text]
                              ELSE [ty |-> "str", text |-> <<>>]

RoundTripAsTextWitness ==
    /\ last.op = "add"
    /\ Len(last.saved) = 2
    /\ Has(last.saved[1], "RRN")
    /\ ~Has(last.saved[2], "RRN")
    /\ Get(last.saved[2], "id").ty = "int"

\* C10: without any delete the identifiers of the stored records are 1..size in
\* order (so pairwise distinct); two stored records hold the same identifier
\* only after a delete, and such a state is reachable.
IdentifiersSequentialUnlessDeleted ==
    LET ids == StoredIds(file)
    IN  /\ ~deleted => \A i \in 1..Len(ids) : ids[i] = Digits(i)
        /\ (\E i, j \in 1..Len(ids) : i < j /\ ids[i] = ids[j]) => deleted

DuplicateIdentifiers ==
    /\ deleted
    /\ Len(file.rows) = 2
    /\ StoredIds(file)[1] = StoredIds(file)[2]

====
